---------------------------- MODULE Spec2Model ----------------------------
(***************************************************************************)
(* A model of the retrieval core of pdf_chat_assistant:                    *)
(*   src/utils/vector_store.py        VectorStore                          *)
(*   src/services/embedding_service.py EmbeddingService                    *)
(*   src/utils/chunking.py            chunk_pdf_text                       *)
(*   src/services/gemini_client.py    GeminiClient.stream_response         *)
(*   src/services/rag_service.py      RAGService.stream_response           *)
(*                                                                         *)
(* Strings are sequences of one-character strings, so that str.startswith  *)
(* and the f-string key format are computed and not assumed.  A Python     *)
(* dict is a sequence of entries with distinct keys in insertion order     *)
(* (the order list(d.keys()) and iteration give).  A cosine similarity is  *)
(* kept as the exact pair (num, den) standing for num / sqrt(den); the     *)
(* rounding of IEEE doubles is not modelled.                               *)
(***************************************************************************)
EXTENDS Integers, Sequences, FiniteSets, TLC

VARIABLES
    embeddings,   \* VectorStore.embeddings: the in-memory dict
    disk,         \* the pickle file at VectorStore.storage_path
    faults,       \* number of storage I/O failures so far
    last,         \* the last service call: its name, arguments and result
    ck,           \* the frame of chunk_pdf_text
    st,           \* the answer stream: generator, provider and consumer
    config,       \* the attributes of class Config, and how far main() got
    session       \* st.session_state of the app

vars == <<embeddings, disk, faults, last, ck, st, config, session>>

(***************************************************************************)
(* Bounds of the model.                                                    *)
(***************************************************************************)
MaxChunks == 2        \* chunks handed to one store_pdf_embeddings call
MaxTopK == 3          \* largest top_k asked of find_similar_chunks
MaxFaults == 1        \* storage I/O failures in one run
MaxTextLen == 7       \* length of the text handed to chunk_pdf_text
MaxParam == 4         \* largest chunk_size / overlap
MaxFragments == 3     \* chunks the generation provider produces
MaxRetrieved == 3     \* retrieved chunks handed to _format_context
MaxMessages == 3      \* a question is asked while the chat is shorter

Min(a, b) == IF a <= b THEN a ELSE b
Max(a, b) == IF a >= b THEN a ELSE b

(***************************************************************************)
(* Strings.                                                                *)
(***************************************************************************)
StartsWith(s, prefix) ==
    /\ Len(prefix) <= Len(s)
    /\ SubSeq(s, 1, Len(prefix)) = prefix

DigitChar == <<"0", "1", "2", "3", "4", "5", "6", "7", "8", "9">>

RECURSIVE Decimal(_)
Decimal(n) ==
    IF n < 10 THEN <<DigitChar[n + 1]>>
    ELSE Decimal(n \div 10) \o <<DigitChar[(n % 10) + 1]>>

\* f"{pdf_id}_"
PdfPrefix(pdf_id) == pdf_id \o <<"_">>

\* f"{pdf_id}_chunk_{idx}"
ChunkKey(pdf_id, idx) ==
    pdf_id \o <<"_", "c", "h", "u", "n", "k", "_">> \o Decimal(idx)

(***************************************************************************)
(* Python dicts as sequences of entries.                                   *)
(***************************************************************************)
Keys(emb) == {emb[i].key : i \in 1..Len(emb)}

HasKey(emb, key) == \E i \in 1..Len(emb) : emb[i].key = key

Entry(emb, key) == emb[CHOOSE i \in 1..Len(emb) : emb[i].key = key]

(***************************************************************************)
(* VectorStore.  A store value holds the in-memory dict, the file, and     *)
(* whether an exception has left the method (raised); io is the outcome    *)
(* of the one file operation the method makes.                             *)
(***************************************************************************)
NoFile == [kind |-> "absent"]
CorruptFile == [kind |-> "corrupt"]
PickleFile(emb) == [kind |-> "file", content |-> emb]

SaveOutcomes == {"ok", "open_fails", "dump_fails"}
LoadOutcomes == {"ok", "read_fails"}

\* a save without the try/except: the I/O error leaves the method
save_embeddings_propagate(vs, io) ==
    CASE io = "ok" -> [vs EXCEPT !.disk = PickleFile(vs.embeddings)]
      [] io = "open_fails" -> [vs EXCEPT !.raised = TRUE]
      [] OTHER -> [vs EXCEPT !.disk = CorruptFile, !.raised = TRUE]

\* save_embeddings: open(path, "wb") truncates, pickle.dump writes the whole
\* dict; any exception is printed and swallowed.
save_embeddings(vs, io) ==
    CASE io = "ok" -> [vs EXCEPT !.disk = PickleFile(vs.embeddings)]
      [] io = "open_fails" -> vs
      [] OTHER -> [vs EXCEPT !.disk = CorruptFile]

\* load_embeddings: only an existing file is read; a failure resets to {}.
load_embeddings(vs, io) ==
    IF vs.disk.kind = "absent" THEN vs
    ELSE IF vs.disk.kind = "file" /\ io = "ok"
         THEN [vs EXCEPT !.embeddings = vs.disk.content]
         ELSE [vs EXCEPT !.embeddings = <<>>]

\* VectorStore.__init__: an empty dict, then load_embeddings.  The
\* directory of storage_path exists (Config.validate has just made it), so
\* os.makedirs(..., exist_ok=True) does nothing.
vector_store_init(file, io) ==
    load_embeddings([embeddings |-> <<>>, disk |-> file, raised |-> FALSE], io)

\* self.embeddings[key] = value: replace in place, or append
DictSet(emb, key, value) ==
    IF HasKey(emb, key)
    THEN [i \in 1..Len(emb) |->
            IF emb[i].key = key THEN [key |-> key] @@ value ELSE emb[i]]
    ELSE Append(emb, [key |-> key] @@ value)

\* an add that persists before it inserts
add_embedding_save_first(vs, key, vector, metadata, io) ==
    [save_embeddings(vs, io) EXCEPT !.embeddings =
        DictSet(vs.embeddings, key,
                [vector |-> vector, metadata |-> metadata])]

add_embedding(vs, key, vector, metadata, io) ==
    save_embeddings(
        [vs EXCEPT !.embeddings =
            DictSet(vs.embeddings, key,
                    [vector |-> vector, metadata |-> metadata])],
        io)

get_embedding_data(vs, key) == Entry(vs.embeddings, key)

\* list(self.embeddings.keys())
get_all_embeddings(vs) == [i \in 1..Len(vs.embeddings) |-> vs.embeddings[i].key]

clear_embeddings(vs, io) ==
    save_embeddings([vs EXCEPT !.embeddings = <<>>], io)

\* del self.embeddings[k]
DictDel(emb, key) ==
    LET D[i \in 0..Len(emb)] ==
            IF i = 0 THEN <<>>
            ELSE IF emb[i].key = key THEN D[i - 1] ELSE Append(D[i - 1], emb[i])
    IN  D[Len(emb)]

\* [k for k in self.embeddings if k.startswith(prefix)]
KeysToRemove(emb, prefix) ==
    LET T[i \in 0..Len(emb)] ==
            IF i = 0 THEN <<>>
            ELSE IF StartsWith(emb[i].key, prefix)
                 THEN Append(T[i - 1], emb[i].key) ELSE T[i - 1]
    IN  T[Len(emb)]

\* for k in to_remove: del self.embeddings[k]
DelAll(emb, to_remove) ==
    LET R[i \in 0..Len(to_remove)] ==
            IF i = 0 THEN emb ELSE DictDel(R[i - 1], to_remove[i])
    IN  R[Len(to_remove)]

\* a removal that deletes only the first matching key
remove_embeddings_by_prefix_first(vs, prefix, io) ==
    LET to_remove == KeysToRemove(vs.embeddings, prefix)
    IN  save_embeddings(
            [vs EXCEPT !.embeddings =
                DelAll(@, SubSeq(to_remove, 1, Min(1, Len(to_remove))))], io)

remove_embeddings_by_prefix(vs, prefix, io) ==
    LET to_remove == KeysToRemove(vs.embeddings, prefix)
    IN  save_embeddings([vs EXCEPT !.embeddings = DelAll(@, to_remove)], io)

(***************************************************************************)
(* The embedding provider (genai.embed_content) is outside the program:    *)
(* each call either returns a vector or raises.                            *)
(***************************************************************************)
EmbeddingDim == 2     \* np.zeros(768), scaled down

Zeros == [i \in 1..EmbeddingDim |-> 0]
Unit(k) == [i \in 1..EmbeddingDim |-> IF i = k THEN 1 ELSE 0]
Ones == [i \in 1..EmbeddingDim |-> 1]
Neg(v) == [i \in 1..EmbeddingDim |-> 0 - v[i]]

\* the vectors the provider returns in this model
ProviderVectors == {Unit(1), Unit(EmbeddingDim), Neg(Unit(1))}

Raises == [ok |-> FALSE]
Returns(v) == [ok |-> TRUE, embedding |-> v]
EmbedOutcomes == {Raises} \cup {Returns(v) : v \in ProviderVectors}
StoreOutcomes == {Raises, Returns(Unit(1))}
QueryOutcomes == {Raises, Returns(Unit(1)), Returns(Ones)}

(***************************************************************************)
(* EmbeddingService.                                                       *)
(***************************************************************************)
\* an embedding loop that drops the items whose call failed
generate_embeddings_skip(texts, outs) ==
    LET E[i \in 0..Len(texts)] ==
            IF i = 0 THEN <<>>
            ELSE IF outs[i].ok THEN Append(E[i - 1], outs[i].embedding)
                 ELSE E[i - 1]
    IN  E[Len(texts)]

\* generate_embeddings: one provider call per text, in order; outs[i] is
\* the outcome of the call for texts[i].
generate_embeddings(texts, outs) ==
    LET E[i \in 0..Len(texts)] ==
            IF i = 0 THEN <<>>
            ELSE IF outs[i].ok THEN Append(E[i - 1], outs[i].embedding)
                 ELSE Append(E[i - 1], Zeros)
    IN  E[Len(texts)]

generate_query_embedding(out) ==
    IF out.ok THEN out.embedding ELSE Zeros

\* a purge that does nothing
clear_pdf_embeddings_noop(vs, pdf_id, io) == save_embeddings(vs, io)

clear_pdf_embeddings(vs, pdf_id, io) ==
    remove_embeddings_by_prefix(vs, PdfPrefix(pdf_id), io)

\* store_pdf_embeddings: purge, embed every chunk, then one add_embedding
\* (and so one save) per (chunk, vector) pair of the zip.  ios[1] is the
\* outcome of the purge's save, ios[idx + 2] of the save of chunk idx.
store_pdf_embeddings(vs, pdf_id, chunks, outs, ios) ==
    LET vecs == generate_embeddings(chunks, outs)
        n == Min(Len(chunks), Len(vecs))
        S[k \in 0..n] ==
            IF k = 0 THEN clear_pdf_embeddings(vs, pdf_id, ios[1])
            ELSE add_embedding(S[k - 1], ChunkKey(pdf_id, k - 1), vecs[k],
                               [pdf_id |-> pdf_id, chunk_index |-> k - 1,
                                text |-> chunks[k]],
                               ios[k + 1])
    IN  S[n]

Dot(a, b) ==
    LET D[i \in 0..EmbeddingDim] ==
            IF i = 0 THEN 0 ELSE D[i - 1] + a[i] * b[i]
    IN  D[EmbeddingDim]

AnyNonZero(a) == \E i \in 1..EmbeddingDim : a[i] # 0

\* a similarity num / sqrt(den), den > 0
ZeroSim == [num |-> 0, den |-> 1]
SignedSquare(x) == IF x < 0 THEN 0 - x * x ELSE x * x
SimLess(s, t) == SignedSquare(s.num) * t.den < SignedSquare(t.num) * s.den
SimEq(s, t) == SignedSquare(s.num) * t.den = SignedSquare(t.num) * s.den

\* _cosine_similarity: dot(a, b) / (norm(a) * norm(b)), 0.0 when either
\* vector is all zero or the denominator is 0
\* a similarity without the zero checks: 0 / 0, not a number, for a zero
\* vector
cosine_similarity_unguarded(a, b) ==
    [num |-> Dot(a, b), den |-> Dot(a, a) * Dot(b, b)]

cosine_similarity(a, b) ==
    IF ~ AnyNonZero(a) \/ ~ AnyNonZero(b) THEN ZeroSim
    ELSE IF Dot(a, a) * Dot(b, b) = 0 THEN ZeroSim
    ELSE [num |-> Dot(a, b), den |-> Dot(a, a) * Dot(b, b)]

\* results.sort(key=similarity, reverse=True): Python's sort is stable, and
\* with reverse=True equal keys keep their original order.  An insertion
\* sort: each result goes after every result that is not smaller.
sort_results(results) ==
    LET Insert(sorted, r) ==
            LET before == {j \in 1..Len(sorted) :
                              ~ SimLess(sorted[j].similarity, r.similarity)}
                k == Cardinality(before)
            IN  SubSeq(sorted, 1, k) \o <<r>> \o SubSeq(sorted, k + 1, Len(sorted))
        S[i \in 0..Len(results)] ==
            IF i = 0 THEN <<>> ELSE Insert(S[i - 1], results[i])
    IN  S[Len(results)]

\* seq[:k] of Python: a negative k counts from the end
SliceTo(seq, k) ==
    IF k >= 0 THEN SubSeq(seq, 1, Min(k, Len(seq)))
    ELSE SubSeq(seq, 1, Max(Len(seq) + k, 0))

\* "if pdf_id and not key.startswith(...)": an empty (or None) pdf_id is
\* falsy and scopes nothing
InScope(key, pdf_id) ==
    ~ (Len(pdf_id) > 0 /\ ~ StartsWith(key, PdfPrefix(pdf_id)))

\* the scan of find_similar_chunks, before the sort
scan_results(vs, q_vec, pdf_id) ==
    LET keys == get_all_embeddings(vs)
        R[i \in 0..Len(keys)] ==
            IF i = 0 THEN <<>>
            ELSE IF ~ InScope(keys[i], pdf_id) THEN R[i - 1]
            ELSE LET data == get_embedding_data(vs, keys[i])
                 IN  Append(R[i - 1],
                        [key |-> keys[i],
                         similarity |-> cosine_similarity(q_vec, data.vector),
                         text |-> data.metadata.text,
                         chunk_index |-> data.metadata.chunk_index,
                         pdf_id |-> data.metadata.pdf_id])
    IN  R[Len(keys)]

\* a search that cuts to top_k before it sorts
find_similar_chunks_cut_first(vs, out, pdf_id, top_k) ==
    sort_results(SliceTo(scan_results(vs, generate_query_embedding(out), pdf_id),
                         top_k))

find_similar_chunks(vs, out, pdf_id, top_k) ==
    SliceTo(sort_results(scan_results(vs, generate_query_embedding(out), pdf_id)),
            top_k)

(***************************************************************************)
(* Inputs.                                                                 *)
(***************************************************************************)
\* document ids as app.py derives them from file names: "a.pdf", "b.pdf"
\* and "a b.pdf" (a blank becomes an underscore)
DocA == <<"a">>
DocB == <<"b">>
DocAB == <<"a", "_", "b">>
DocIds == {DocA, DocB, DocAB}

\* the chunk lists handed to store_pdf_embeddings: the first n chunks
\* "t1", "t2", ... of a document
DocumentChunks(n) == [k \in 1..n |-> <<"t">> \o Decimal(k)]
ChunkLists == {DocumentChunks(n) : n \in 0..MaxChunks}
\* the documents of at most two chunks
PairLists == {DocumentChunks(n) : n \in 0..Min(2, MaxChunks)}
\* the documents of at most one chunk
ShortLists == {DocumentChunks(n) : n \in 0..Min(1, MaxChunks)}

\* metadata dicts handed to add_embedding
Metadata ==
    {[pdf_id |-> DocA, chunk_index |-> 0, text |-> <<"t", "1">>],
     [pdf_id |-> DocB, chunk_index |-> 0, text |-> <<"t", "2">>]}

\* keys handed to add_embedding
StoreKeys == {ChunkKey(DocA, 0), ChunkKey(DocA, 1), ChunkKey(DocB, 0)}

Failures(ios) == Cardinality({i \in DOMAIN ios : ios[i] # "ok"})

(***************************************************************************)
(* The state after construction: no pickle file, an empty store, no call   *)
(* of the chunker or of the answer stream in progress.                     *)
(***************************************************************************)
Idle == [pc |-> "idle"]

\* initialize_session_state: no message yet
NewSession ==
    [chat_history |-> <<>>, streaming |-> FALSE, pdf_processed |-> FALSE,
     pdf_id |-> <<>>, status |-> "none"]

\* main() has not run: no Config.validate call yet
NotStarted == [pc |-> "not_started"]

Init ==
    /\ embeddings = <<>>
    /\ disk = NoFile
    /\ faults = 0
    /\ last = [op |-> "start"]
    /\ ck = Idle
    /\ st = Idle
    /\ config = NotStarted
    /\ session = NewSession

VS == [embeddings |-> embeddings, disk |-> disk, raised |-> FALSE]

Becomes(vs, nfail) ==
    /\ embeddings' = vs.embeddings
    /\ disk' = vs.disk
    /\ faults' = faults + nfail

(***************************************************************************)
(* Operations on the store.  Each action is one whole call.                *)
(***************************************************************************)
\* EmbeddingService.store_pdf_embeddings(pdf_id, chunks)
StorePdfEmbeddings(ids, lists, outcomes, saves) ==
    \E pdf_id \in ids, chunks \in lists :
      \E outs \in [1..Len(chunks) -> outcomes],
         ios \in [1..Len(chunks) + 1 -> saves] :
        /\ faults + Failures(ios) <= MaxFaults
        /\ Becomes(store_pdf_embeddings(VS, pdf_id, chunks, outs, ios),
                   Failures(ios))
        /\ last' = [op |-> "store_pdf_embeddings", pdf_id |-> pdf_id,
                    chunks |-> chunks, outs |-> outs,
                    had |-> Cardinality({k \in Keys(embeddings) :
                                StartsWith(k, PdfPrefix(pdf_id))})]
        /\ UNCHANGED <<ck, st, config, session>>

\* EmbeddingService.clear_pdf_embeddings(pdf_id)
ClearPdfEmbeddings(ids, saves) ==
    \E pdf_id \in ids, io \in saves :
        /\ faults + Failures(<<io>>) <= MaxFaults
        /\ Becomes(clear_pdf_embeddings(VS, pdf_id, io), Failures(<<io>>))
        /\ last' = [op |-> "clear_pdf_embeddings", pdf_id |-> pdf_id]
        /\ UNCHANGED <<ck, st, config, session>>

\* VectorStore.add_embedding(key, vector, metadata)
AddEmbedding(keys, vectors, saves) ==
    \E key \in keys, vector \in vectors, metadata \in Metadata, io \in saves :
        /\ faults + Failures(<<io>>) <= MaxFaults
        /\ Becomes(add_embedding(VS, key, vector, metadata, io),
                   Failures(<<io>>))
        /\ last' = [op |-> "add_embedding", key |-> key, vector |-> vector,
                    metadata |-> metadata, io |-> io,
                    raised |-> add_embedding(VS, key, vector, metadata, io).raised]
        /\ UNCHANGED <<ck, st, config, session>>

\* VectorStore.remove_embeddings_by_prefix(prefix), for any prefix
RemoveEmbeddingsByPrefix(prefixes, saves) ==
    \E prefix \in prefixes, io \in saves :
        /\ faults + Failures(<<io>>) <= MaxFaults
        /\ Becomes(remove_embeddings_by_prefix(VS, prefix, io), Failures(<<io>>))
        /\ last' = [op |-> "remove_embeddings_by_prefix", prefix |-> prefix,
                    had |-> Len(embeddings), io |-> io,
                    raised |-> remove_embeddings_by_prefix(VS, prefix, io).raised]
        /\ UNCHANGED <<ck, st, config, session>>

\* VectorStore.clear_embeddings(), as reset_app_state calls it
ClearEmbeddings(saves) ==
    \E io \in saves :
        /\ faults + Failures(<<io>>) <= MaxFaults
        /\ Becomes(clear_embeddings(VS, io), Failures(<<io>>))
        /\ last' = [op |-> "clear_embeddings", io |-> io,
                    raised |-> clear_embeddings(VS, io).raised]
        /\ UNCHANGED <<ck, st, config, session>>

\* A new VectorStore on the same path (EmbeddingService() of a later run)
NewVectorStore(loads) ==
    \E io \in loads :
        LET failed == IF disk.kind = "file" /\ io # "ok" THEN 1 ELSE 0
        IN  /\ faults + failed <= MaxFaults
            /\ Becomes(vector_store_init(disk, io), failed)
            /\ last' = [op |-> "VectorStore",
                        load |-> IF disk.kind = "absent" THEN "none"
                                 ELSE IF disk.kind = "file" /\ io = "ok"
                                      THEN "ok" ELSE "failed",
                        raised |-> vector_store_init(disk, io).raised]
            /\ UNCHANGED <<ck, st, config, session>>

\* EmbeddingService.find_similar_chunks(query, pdf_id, top_k)
FindSimilarChunks(ids, outcomes) ==
    \E pdf_id \in ids, out \in outcomes, top_k \in (0 - 1)..MaxTopK :
        /\ last' = [op |-> "find_similar_chunks", pdf_id |-> pdf_id,
                    top_k |-> top_k, out |-> out,
                    results |-> find_similar_chunks(VS, out, pdf_id, top_k)]
        /\ UNCHANGED <<embeddings, disk, faults, ck, st, config, session>>

Prefixes ==
    {PdfPrefix(d) : d \in DocIds} \cup {<<>>, ChunkKey(DocA, 0), <<"b">>}

(***************************************************************************)
(* chunk_pdf_text(pdf_text, chunk_size, overlap), one action per step of   *)
(* its body.  A text is the sequence of its characters; the texts of the   *)
(* model have pairwise distinct characters (character i is the number i),  *)
(* so that a slice is told by its content.                                 *)
(***************************************************************************)
TextOfLength(n) == [i \in 1..n |-> i]

\* s[a:b] of Python: negative indices count from the end, both are clamped
PySlice(s, a, b) ==
    LET lo == IF a < 0 THEN Max(Len(s) + a, 0) ELSE Min(a, Len(s))
        hi == IF b < 0 THEN Max(Len(s) + b, 0) ELSE Min(b, Len(s))
    IN  SubSeq(s, lo + 1, hi)

\* a guard that lets chunk_size = overlap through
invalid_chunking_strict(chunk_size, overlap) == chunk_size < overlap

\* "if chunk_size <= overlap: raise ValueError"
invalid_chunking(chunk_size, overlap) == chunk_size <= overlap

\* a loop that stops once a chunk has reached the end of the text
chunk_more_until_covered(start, length, overlap) == start + overlap < length

\* "while start < length"
chunk_more(start, length, overlap) == start < length

\* "end = min(start + chunk_size, length)"
chunk_end(start, chunk_size, length) == Min(start + chunk_size, length)

\* a step of a whole chunk_size, with no overlap
chunk_advance_no_overlap(start, chunk_size, overlap) == start + chunk_size

\* "start += chunk_size - overlap"
chunk_advance(start, chunk_size, overlap) == start + (chunk_size - overlap)

MinParam == 0 - 1

\* the spec's scenario: a text of 250 characters, chunk_size 100, overlap 20
ScenarioCall == [length |-> 250, chunk_size |-> 100, overlap |-> 20]

ChunkCalls ==
    [length : 0..MaxTextLen, chunk_size : MinParam..MaxParam,
     overlap : MinParam..MaxParam] \cup {ScenarioCall}

ChunkCall ==
    /\ ck.pc \in {"idle", "returned", "raised"}
    /\ \E c \in ChunkCalls :
         ck' = [pc |-> IF invalid_chunking(c.chunk_size, c.overlap)
                       THEN "raised" ELSE "loop",
                pdf_text |-> TextOfLength(c.length),
                chunk_size |-> c.chunk_size,
                overlap |-> c.overlap,
                chunks |-> <<>>,
                start |-> 0,
                length |-> c.length]
    /\ UNCHANGED <<embeddings, disk, faults, last, st, config, session>>

ChunkLoop ==
    /\ ck.pc = "loop"
    /\ chunk_more(ck.start, ck.length, ck.overlap)
    /\ ck' = [ck EXCEPT
                !.chunks = Append(@, PySlice(ck.pdf_text, ck.start,
                                  chunk_end(ck.start, ck.chunk_size, ck.length))),
                !.start = chunk_advance(@, ck.chunk_size, ck.overlap)]
    /\ UNCHANGED <<embeddings, disk, faults, last, st, config, session>>

ChunkReturn ==
    /\ ck.pc = "loop"
    /\ ~ chunk_more(ck.start, ck.length, ck.overlap)
    /\ ck' = [ck EXCEPT !.pc = "returned"]
    /\ UNCHANGED <<embeddings, disk, faults, last, st, config, session>>

(***************************************************************************)
(* PDFProcessor.process_pdf.  The text of a page is what the PDF library   *)
(* extracts; a character that is not white space is written ToString(i),   *)
(* one element whatever its digits, so that each is told from the others.  *)
(***************************************************************************)
IsSpace(c) == c \in {" ", "\n", "\t"}

\* str.strip()
Strip(s) ==
    LET solid == {i \in 1..Len(s) : ~ IsSpace(s[i])}
    IN  IF solid = {} THEN <<>>
        ELSE SubSeq(s, CHOOSE i \in solid : \A j \in solid : i <= j,
                       CHOOSE i \in solid : \A j \in solid : i >= j)

\* clean_text: " ".join(text.split()).  Every character that is not white
\* space is kept; of a run of white space between two of them the first
\* character is kept, as one blank.
clean_text(text) ==
    LET solid == {i \in 1..Len(text) : ~ IsSpace(text[i])}
        marked == [i \in 1..Len(text) |->
                     [c |-> IF IsSpace(text[i]) THEN " " ELSE text[i],
                      keep |-> \/ i \in solid
                               \/ /\ (i - 1) \in solid
                                  /\ \E j \in solid : j > i]]
        Keep(m) == m.keep
        kept == SelectSeq(marked, Keep)
    IN  [k \in 1..Len(kept) |-> kept[k].c]

\* f"\n--- Page {idx+1} ---\n"
PageHeader(idx) ==
    <<"\n", "-", "-", "-", " ", "P", "a", "g", "e", " ">> \o Decimal(idx + 1)
        \o <<" ", "-", "-", "-", "\n">>

\* _extract_text: the pages with text, each under its header
extract_text(pages) ==
    LET E[i \in 0..Len(pages)] ==
            IF i = 0 THEN <<>>
            ELSE IF Strip(pages[i]) # <<>>
                 THEN E[i - 1] \o PageHeader(i - 1) \o pages[i]
                 ELSE E[i - 1]
    IN  E[Len(pages)]

\* the loop of chunk_pdf_text from offset start on
RECURSIVE chunks_from(_, _, _, _)
chunks_from(pdf_text, start, chunk_size, overlap) ==
    IF chunk_more(start, Len(pdf_text), overlap)
    THEN <<PySlice(pdf_text, start, chunk_end(start, chunk_size, Len(pdf_text)))>>
            \o chunks_from(pdf_text, chunk_advance(start, chunk_size, overlap),
                           chunk_size, overlap)
    ELSE <<>>

\* chunk_pdf_text as one call: the ValueError, or the chunks
chunk_pdf_text(pdf_text, chunk_size, overlap) ==
    IF invalid_chunking(chunk_size, overlap)
    THEN [raised |-> TRUE, chunks |-> <<>>]
    ELSE [raised |-> FALSE, chunks |-> chunks_from(pdf_text, 0, chunk_size, overlap)]

\* "len(c.strip()) > 50"
MinChunkLength == 50

\* a filter that also keeps a chunk of exactly 50 characters
keep_chunk_inclusive(c) == Len(Strip(c)) >= MinChunkLength

keep_chunk(c) == Len(Strip(c)) > MinChunkLength

\* [c for c in chunks if len(c.strip()) > 50]
post_filter(chunks) == SelectSeq(chunks, keep_chunk)

\* PDFProcessor.process_pdf on the pages of a file: the exception of
\* chunk_pdf_text, or the chunks that pass the filter
process_pdf(pages, chunk_size, overlap) ==
    LET raw == extract_text(pages)
        cleaned == clean_text(raw)
        chunked == chunk_pdf_text(cleaned, chunk_size, overlap)
    IN  IF Strip(raw) = <<>>
        THEN [raised |-> FALSE, cleaned |-> <<>>, chunks |-> <<>>]
        ELSE [raised |-> chunked.raised, cleaned |-> cleaned,
              chunks |-> post_filter(chunked.chunks)]

\* a page of n characters in words of five
PageText(n) == [i \in 1..n |-> IF i % 6 = 0 THEN " " ELSE ToString(i)]

(***************************************************************************)
(* The prompt.  A piece of text the program writes itself (a literal of    *)
(* an f-string) is one element of the character sequence.                  *)
(***************************************************************************)
\* sep.join(parts)
Join(sep, parts) ==
    LET J[i \in 0..Len(parts)] ==
            IF i = 0 THEN <<>>
            ELSE IF i = 1 THEN parts[1]
            ELSE J[i - 1] \o sep \o parts[i]
    IN  J[Len(parts)]

\* f"{similarity:.2f}" of a similarity >= 0: the nearest hundredth h of
\* num / sqrt(den), that is (2h - 1) / 200 <= num / sqrt(den)
Format2f(sim) ==
    LET Reached(h) == (2 * h - 1) * (2 * h - 1) * sim.den
                          <= 40000 * sim.num * sim.num
        h == CHOOSE x \in 0..100 :
                /\ x = 0 \/ Reached(x)
                /\ x = 100 \/ ~ Reached(x + 1)
    IN  Decimal(h \div 100) \o <<".">>
            \o Decimal((h % 100) \div 10) \o Decimal(h % 10)

\* a context that also takes a chunk at exactly 0.05
above_threshold_inclusive(sim) ==
    sim.num > 0 /\ 400 * sim.num * sim.num >= sim.den

\* "c.get("similarity", 0) > 0.05": num / sqrt(den) > 1 / 20
above_threshold(sim) ==
    sim.num > 0 /\ 400 * sim.num * sim.num > sim.den

\* f"[Chunk {idx} sim={c['similarity']:.2f}]\n{c.get('text','')}"
context_line(idx, c) ==
    <<"[Chunk ">> \o Decimal(idx) \o <<" sim=">> \o Format2f(c.similarity)
        \o <<"]", "\n">> \o c.text

\* RAGService._format_context
format_context(chunks) ==
    LET lines[i \in 0..Len(chunks)] ==
            IF i = 0 THEN <<>>
            ELSE IF above_threshold(chunks[i].similarity)
                 THEN Append(lines[i - 1], context_line(i, chunks[i]))
                 ELSE lines[i - 1]
    IN  IF chunks = <<>> THEN <<>>
        ELSE Join(<<"\n", "\n">>, lines[Len(chunks)])

SystemText ==
    <<"You are an assistant answering questions about an uploaded PDF. ",
      "Base answers only on provided context. If unknown, say you lack the info.">>

\* chat_history[-5:]
HistoryWindow == 5
RecentMessages(chat_history) ==
    SubSeq(chat_history, Max(1, Len(chat_history) - HistoryWindow + 1),
           Len(chat_history))

\* f"{role}: {content}"
history_line(m) == m.role \o <<": ">> \o m.content

ContextHeader == <<"\nContext:\n">>
HistoryHeader == <<"\nRecent conversation:">>
QuestionHeader == <<"\nQuestion: ">>
AnswerCue == <<"\nAnswer:">>

\* GeminiClient._build_prompt
build_prompt(user_prompt, context, chat_history) ==
    LET recent == RecentMessages(chat_history)
        parts ==
            <<SystemText>>
            \o (IF context # <<>> THEN <<ContextHeader \o context>> ELSE <<>>)
            \o (IF chat_history # <<>>
                THEN <<HistoryHeader>>
                     \o [i \in 1..Len(recent) |-> history_line(recent[i])]
                ELSE <<>>)
            \o <<QuestionHeader \o user_prompt \o AnswerCue>>
    IN  Join(<<"\n">>, parts)

\* similarities given in hundredths: h / 100
Percent(h) == [num |-> h, den |-> 10000]
SimSamples == {ZeroSim, Percent(2), Percent(5), Percent(6), Percent(100)}

\* a result of find_similar_chunks for chunk k of document "a"
Retrieved(k, sim) ==
    [key |-> ChunkKey(DocA, k - 1), similarity |-> sim,
     text |-> <<"t">> \o Decimal(k), chunk_index |-> k - 1, pdf_id |-> DocA]

RetrievedLists ==
    UNION {{[k \in 1..n |-> Retrieved(k, sims[k])] : sims \in [1..n -> SimSamples]}
              : n \in 0..MaxRetrieved}

Message(role, content) == [role |-> <<role>>, content |-> content]
Question == <<"q", "?">>
PromptHistories == {<<>>, <<Message("user", <<"h">>), Message("assistant", <<"i">>)>>}

\* RAGService._format_context(chunks)
FormatContext ==
    /\ last.op = "start"
    /\ \E chunks \in RetrievedLists :
         last' = [op |-> "format_context", chunks |-> chunks,
                  context |-> format_context(chunks)]
    /\ UNCHANGED <<embeddings, disk, faults, ck, st, config, session>>

\* GeminiClient._build_prompt(user_prompt, context, chat_history) on the
\* context just assembled
BuildPrompt ==
    /\ last.op = "format_context"
    /\ \E chat_history \in PromptHistories :
         last' = [op |-> "build_prompt", chunks |-> last.chunks,
                  context |-> last.context, chat_history |-> chat_history,
                  prompt |-> build_prompt(Question, last.context, chat_history)]
    /\ UNCHANGED <<embeddings, disk, faults, ck, st, config, session>>

\* the prompt has been handed to the provider
PromptSent ==
    /\ last.op = "build_prompt"
    /\ last' = [op |-> "start"]
    /\ UNCHANGED <<embeddings, disk, faults, ck, st, config, session>>

(***************************************************************************)
(* Config (config/settings.py).  A setting is a Python value: None, a str  *)
(* read from the environment, or the int validate has put in its place.    *)
(***************************************************************************)
PyNone == [type |-> "NoneType"]
PyStr(s) == [type |-> "str", s |-> s]
PyInt(n) == [type |-> "int", n |-> n]

\* the keys of "required", in the order of the dict
Required ==
    <<"GEMINI_API_KEY", "GEMINI_MODEL", "EMBEDDING_MODEL", "STREAMLIT_PORT",
      "MAX_PDF_SIZE_MB", "CHUNK_SIZE", "CHUNK_OVERLAP", "UPLOAD_FOLDER",
      "EMBEDDINGS_FOLDER">>

\* the settings validate converts, in the order of its assignments
Numeric == <<"STREAMLIT_PORT", "MAX_PDF_SIZE_MB", "CHUNK_SIZE", "CHUNK_OVERLAP">>

\* "not v": None, "" and 0 are falsy
Falsy(v) ==
    \/ v.type = "NoneType"
    \/ v.type = "str" /\ v.s = <<>>
    \/ v.type = "int" /\ v.n = 0

IsDigit(c) == \E k \in 1..10 : DigitChar[k] = c
DigitValue(c) == (CHOOSE k \in 1..10 : DigitChar[k] = c) - 1

\* int(v): an int is returned as it is; a str of an optional sign and
\* decimal digits is parsed; any other str raises ValueError
ParseInt(v) ==
    IF v.type = "int" THEN [ok |-> TRUE, n |-> v.n]
    ELSE IF v.type # "str" THEN [ok |-> FALSE]
    ELSE LET signed == v.s # <<>> /\ v.s[1] \in {"-", "+"}
             digits == IF signed THEN Tail(v.s) ELSE v.s
             V[i \in 0..Len(digits)] ==
                 IF i = 0 THEN 0 ELSE 10 * V[i - 1] + DigitValue(digits[i])
         IN  IF digits = <<>> \/ \E i \in 1..Len(digits) : ~ IsDigit(digits[i])
             THEN [ok |-> FALSE]
             ELSE [ok |-> TRUE,
                   n |-> IF signed /\ v.s[1] = "-"
                         THEN 0 - V[Len(digits)] ELSE V[Len(digits)]]

\* "missing = [k for k, v in required.items() if not v]"
missing_settings(c) ==
    LET L[i \in 0..Len(Required)] ==
            IF i = 0 THEN <<>>
            ELSE IF Falsy(c[Required[i]]) THEN Append(L[i - 1], Required[i])
                 ELSE L[i - 1]
    IN  L[Len(Required)]

\* the four "cls.X = int(cls.X)" in turn: the first int() that raises ends
\* the call, the earlier assignments stay
convert_settings(c) ==
    LET Step(prev, k) ==
            IF prev.raised # "none" THEN prev
            ELSE LET r == ParseInt(prev.values[k])
                 IN  IF r.ok THEN [prev EXCEPT !.values[k] = PyInt(r.n)]
                     ELSE [prev EXCEPT !.raised = "ValueError: int"]
        S[i \in 0..Len(Numeric)] ==
            IF i = 0 THEN [values |-> c, raised |-> "none"]
            ELSE Step(S[i - 1], Numeric[i])
    IN  S[Len(Numeric)]

StorageFile == <<"/", "pdf_embeddings.pkl">>

\* Config.validate: the settings after the call and the exception raised.
\* Both os.makedirs(..., exist_ok=True) calls are taken to succeed.
validate(c) ==
    IF missing_settings(c) # <<>>
    THEN [values |-> c, raised |-> "ValueError: missing",
          missing |-> missing_settings(c)]
    ELSE LET r == convert_settings(c)
         IN  IF r.raised # "none"
             THEN [values |-> r.values, raised |-> r.raised, missing |-> <<>>]
             ELSE [values |-> [r.values EXCEPT !.EMBEDDING_STORAGE_PATH =
                                  PyStr(r.values.EMBEDDINGS_FOLDER.s \o StorageFile)],
                   raised |-> "none", missing |-> <<>>]

\* the contents of .env: class Config reads each setting with os.getenv
Environment(key, model, size, overlap) ==
    [GEMINI_API_KEY |-> key, GEMINI_MODEL |-> model,
     EMBEDDING_MODEL |-> PyStr(<<"e">>), STREAMLIT_PORT |-> PyStr(<<"8", "5", "0", "1">>),
     MAX_PDF_SIZE_MB |-> PyStr(<<"1", "0">>), CHUNK_SIZE |-> size,
     CHUNK_OVERLAP |-> overlap, UPLOAD_FOLDER |-> PyStr(<<"u">>),
     EMBEDDINGS_FOLDER |-> PyStr(<<"d">>), EMBEDDING_STORAGE_PATH |-> PyNone]

Environments ==
    {Environment(key, PyStr(<<"g">>), size, overlap) :
        key \in {PyNone, PyStr(<<"k">>)},
        size \in {PyNone, PyStr(<<>>), PyStr(<<"x">>), PyStr(<<"6", "0">>), PyStr(<<"1", "0">>)},
        overlap \in {PyStr(<<"0">>), PyStr(<<"1", "0">>), PyStr(<<"6", "0">>)}}

(***************************************************************************)
(* The answer stream.  RAGService.stream_response retrieves the top 3      *)
(* chunks and returns GeminiClient.stream_response's generator; the        *)
(* consumer (ChatInterface.stream_assistant) is a for loop over it.  The   *)
(* generation provider is outside the program: asked for the next chunk    *)
(* it hands one over (its text possibly empty), raises, or ends.           *)
(***************************************************************************)
ErrorFragment == "[Error]"
FragmentTexts == {"", "x", "y"}

\* a generator without the except clause: the exception reaches the consumer
on_provider_error_propagate(g) ==
    [g EXCEPT !.pc = "closed", !.failed = TRUE, !.escaped = TRUE]

\* "except Exception as e: yield f"[Error] {e}""
on_provider_error(g) ==
    [g EXCEPT !.pc = "after_error", !.failed = TRUE,
              !.yielded = Append(@, ErrorFragment)]

\* "txt = getattr(chunk, "text", ""); if txt: yield txt"
on_provider_chunk(g, txt) ==
    [g EXCEPT !.produced = Append(@, txt),
              !.yielded = IF txt # "" THEN Append(@, txt) ELSE @]

\* RAGService.stream_response(user_query, pdf_id, chat_history): retrieval
\* and _format_context run at once; the generator it returns keeps the
\* query, the context and the chat_history list itself (not a copy), and
\* its body runs only when the consumer asks for the first fragment
stream_response(vs, out, user_query, pdf_id) ==
    [pc |-> "created",
     chunks |-> find_similar_chunks(vs, out, pdf_id, 3),
     query |-> user_query,
     context |-> format_context(find_similar_chunks(vs, out, pdf_id, 3)),
     prompt |-> <<>>,
     produced |-> <<>>, yielded |-> <<>>,
     failed |-> FALSE, escaped |-> FALSE]

StreamResponse ==
    /\ st.pc \in {"idle", "closed"}
    /\ \E pdf_id \in {DocA}, out \in QueryOutcomes :
         /\ st' = stream_response(VS, out, Question, pdf_id)
         /\ last' = [op |-> "stream_response", pdf_id |-> pdf_id, out |-> out]
    /\ UNCHANGED <<embeddings, disk, faults, ck, config, session>>

\* the first next(): _build_prompt, over the chat_history list as it is
\* now, and generate_content(stream=True)
StreamStart ==
    /\ st.pc = "created"
    /\ LET started ==
             [st EXCEPT !.prompt = build_prompt(st.query, st.context,
                                               session.chat_history)]
       IN  \/ st' = [started EXCEPT !.pc = "iterating"]
           \/ st' = on_provider_error(started)
    /\ UNCHANGED <<embeddings, disk, faults, last, ck, config, session>>

ProviderChunk(texts) ==
    /\ st.pc = "iterating"
    /\ Len(st.produced) < MaxFragments
    /\ \E txt \in texts : st' = on_provider_chunk(st, txt)
    /\ UNCHANGED <<embeddings, disk, faults, last, ck, config, session>>

ProviderRaises ==
    /\ st.pc = "iterating"
    /\ st' = on_provider_error(st)
    /\ UNCHANGED <<embeddings, disk, faults, last, ck, config, session>>

\* the provider's iterator is exhausted: the generator returns
ProviderEnds ==
    /\ st.pc = "iterating"
    /\ st' = [st EXCEPT !.pc = "closed"]
    /\ UNCHANGED <<embeddings, disk, faults, last, ck, config, session>>

\* the next() after the error fragment: the generator returns
StreamFinish ==
    /\ st.pc = "after_error"
    /\ st' = [st EXCEPT !.pc = "closed"]
    /\ UNCHANGED <<embeddings, disk, faults, last, ck, config, session>>

(***************************************************************************)
(* The app (app.py).  Streamlit runs main() from the top at every user     *)
(* interaction; the module config.settings is imported once, so the        *)
(* attributes of Config live on from one run to the next.                  *)
(***************************************************************************)
\* "from config.settings import Config": the class attributes are read from
\* the environment
ImportSettings(envs) ==
    /\ config.pc = "not_started"
    /\ \E env \in envs :
         config' = [pc |-> "main", values |-> env, validated |-> FALSE,
                    error |-> "none", failed_in |-> "none"]
    /\ UNCHANGED <<embeddings, disk, faults, last, ck, st, session>>

\* main(): embedding_service = EmbeddingService(), that is Config.validate()
\* and VectorStore(EMBEDDING_STORAGE_PATH); an exception ends the run
ConstructEmbeddingService(loads) ==
    /\ config.pc = "main"
    /\ LET r == validate(config.values)
       IN  IF r.raised # "none"
           THEN /\ config' = [config EXCEPT !.pc = "failed", !.values = r.values,
                                             !.error = r.raised,
                                             !.failed_in = "EmbeddingService"]
                /\ UNCHANGED <<embeddings, disk, faults, last>>
           ELSE /\ config' = [config EXCEPT !.pc = "embedding_service",
                                             !.values = r.values,
                                             !.validated = TRUE,
                                             !.error = "none",
                                             !.failed_in = "none"]
                /\ \E io \in loads :
                     LET failed == IF disk.kind = "file" /\ io # "ok"
                                   THEN 1 ELSE 0
                     IN  /\ faults + failed <= MaxFaults
                         /\ Becomes(vector_store_init(disk, io), failed)
                /\ last' = [op |-> "EmbeddingService"]
    /\ UNCHANGED <<ck, st, session>>

\* main(): gemini_client = GeminiClient(), that is Config.validate() again
ConstructGeminiClient ==
    /\ config.pc = "embedding_service"
    /\ LET r == validate(config.values)
       IN  config' = IF r.raised # "none"
                     THEN [config EXCEPT !.pc = "failed", !.values = r.values,
                                         !.error = r.raised,
                                         !.failed_in = "GeminiClient"]
                     ELSE [config EXCEPT !.pc = "running", !.values = r.values,
                                         !.validated = TRUE]
    /\ UNCHANGED <<embeddings, disk, faults, last, ck, st, session>>

\* PDFProcessor.__init__: "chunk_size or Config.CHUNK_SIZE": an argument
\* that is None or 0 gives way to the setting
pdf_processor_init(chunk_size, overlap, c) ==
    [chunk_size |-> IF Falsy(chunk_size) THEN c.CHUNK_SIZE ELSE chunk_size,
     overlap |-> IF Falsy(overlap) THEN c.CHUNK_OVERLAP ELSE overlap]

\* auto_process_pdf past its two early returns (a new file, or Reprocess):
\* PDFProcessor() takes chunk_size and overlap from Config; an exception of
\* process_pdf is caught and shown; no chunk is "Failed to extract text."
AutoProcessPdf(pagesets, outcomes, saves) ==
    /\ config.pc = "running"
    /\ ~ session.streaming
    /\ \E pages \in pagesets :
         LET p == pdf_processor_init(PyNone, PyNone, config.values)
             r == process_pdf(pages, p.chunk_size.n, p.overlap.n)
         IN  IF r.raised
             THEN /\ session' = [session EXCEPT !.pdf_processed = FALSE,
                                                !.status = "error"]
                  /\ UNCHANGED <<embeddings, disk, faults>>
                  /\ last' = [op |-> "process_pdf", raised |-> TRUE,
                              cleaned |-> r.cleaned, chunks |-> r.chunks]
             ELSE IF r.chunks = <<>>
             THEN /\ session' = [session EXCEPT !.pdf_processed = FALSE,
                                                !.status = "failed_to_extract"]
                  /\ UNCHANGED <<embeddings, disk, faults>>
                  /\ last' = [op |-> "process_pdf", raised |-> FALSE,
                              cleaned |-> r.cleaned, chunks |-> r.chunks]
             ELSE \E outs \in [1..Len(r.chunks) -> outcomes],
                     ios \in [1..Len(r.chunks) + 1 -> saves] :
                  /\ faults + Failures(ios) <= MaxFaults
                  /\ Becomes(store_pdf_embeddings(VS, DocA, r.chunks, outs, ios),
                             Failures(ios))
                  /\ session' = [session EXCEPT !.pdf_processed = TRUE,
                                                !.pdf_id = DocA,
                                                !.status = "complete"]
                  /\ last' = [op |-> "process_pdf", raised |-> FALSE,
                              cleaned |-> r.cleaned, chunks |-> r.chunks]
    /\ UNCHANGED <<ck, st, config>>

\* main(), "if send and user_input.strip()": the question is appended to
\* st.session_state.chat_history, and that list is handed to
\* rag_service.stream_response
SendQuestion(outcomes) ==
    /\ config.pc = "running"
    /\ session.pdf_processed
    /\ session.pdf_id # <<>>
    /\ ~ session.streaming
    /\ Len(session.chat_history) < MaxMessages
    /\ LET query == <<"q">> \o Decimal(Len(session.chat_history)) \o <<"?">>
       IN  /\ session' = [session EXCEPT
                            !.chat_history = Append(@, Message("user", query)),
                            !.streaming = TRUE]
           /\ \E out \in outcomes :
                st' = stream_response(VS, out, query, session.pdf_id)
    /\ UNCHANGED <<embeddings, disk, faults, last, ck, config>>

\* stream_assistant has consumed the stream: the answer is appended, and
\* st.rerun() starts main() again
FinishAnswer ==
    /\ session.streaming
    /\ st.pc = "closed"
    /\ session' = [session EXCEPT
                     !.chat_history = Append(@, [role |-> <<"assistant">>,
                                                 content |-> st.yielded]),
                     !.streaming = FALSE]
    /\ config' = [config EXCEPT !.pc = "main"]
    /\ UNCHANGED <<embeddings, disk, faults, last, ck, st>>

\* "Clear Chat"
ClearChat ==
    /\ config.pc = "running"
    /\ ~ session.streaming
    /\ session.chat_history # <<>>
    /\ session' = [session EXCEPT !.chat_history = <<>>]
    /\ config' = [config EXCEPT !.pc = "main"]
    /\ UNCHANGED <<embeddings, disk, faults, last, ck, st>>

\* the run is over (or has stopped at an exception); the next interaction
\* runs main() again
NextRun ==
    /\ config.pc \in {"running", "failed"}
    /\ ~ session.streaming
    /\ config' = [config EXCEPT !.pc = "main"]
    /\ UNCHANGED <<embeddings, disk, faults, last, ck, st, session>>

\* PDFProcessor(chunk_size, overlap).process_pdf(file_path)
ProcessPdf(pagesets, sizes, overlaps) ==
    /\ config.pc = "running"
    /\ \E pages \in pagesets, chunk_size \in sizes, overlap \in overlaps :
         LET p == pdf_processor_init(chunk_size, overlap, config.values)
             r == process_pdf(pages, p.chunk_size.n, p.overlap.n)
         IN  last' = [op |-> "process_pdf", raised |-> r.raised,
                      cleaned |-> r.cleaned, chunks |-> r.chunks,
                      chunk_size |-> p.chunk_size.n, overlap |-> p.overlap.n]
    /\ UNCHANGED <<embeddings, disk, faults, ck, st, config, session>>

\* an environment with every setting valid: chunks of 60, overlap 10
DefaultEnvironment ==
    Environment(PyStr(<<"k">>), PyStr(<<"g">>), PyStr(<<"6", "0">>),
                PyStr(<<"1", "0">>))

\* the pages of the uploaded files
PageSets == {<<>>, <<PageText(0)>>, <<PageText(7)>>, <<PageText(110)>>}

(***************************************************************************)
(* Spec: the store of three documents, two of whose ids share a prefix,    *)
(* under every ingestion, purge, removal, reset and reload, with every     *)
(* file operation succeeding.                                              *)
(***************************************************************************)
Next ==
    \/ StorePdfEmbeddings({DocA, DocAB}, ChunkLists, StoreOutcomes, {"ok"})
    \/ StorePdfEmbeddings({DocB}, ShortLists, StoreOutcomes, {"ok"})
    \/ ClearPdfEmbeddings(DocIds, {"ok"})
    \/ RemoveEmbeddingsByPrefix(Prefixes, {"ok"})
    \/ ClearEmbeddings({"ok"})
    \/ NewVectorStore({"ok"})

Spec == Init /\ [][Next]_vars

(***************************************************************************)
(* SpecFaults: the store of two documents and its file when saves and      *)
(* loads may fail (at most MaxFaults times).                               *)
(***************************************************************************)
NextFaults ==
    \/ StorePdfEmbeddings({DocA, DocAB}, ChunkLists, StoreOutcomes, SaveOutcomes)
    \/ ClearPdfEmbeddings({DocA, DocAB}, SaveOutcomes)
    \/ ClearEmbeddings(SaveOutcomes)
    \/ NewVectorStore(LoadOutcomes)

SpecFaults == Init /\ [][NextFaults]_vars

(***************************************************************************)
(* SpecStore: the VectorStore alone, every method called directly, with    *)
(* saves and loads that may fail (at most MaxFaults times).                *)
(***************************************************************************)
NextStore ==
    \/ AddEmbedding(StoreKeys, {Unit(1), Zeros}, SaveOutcomes)
    \/ RemoveEmbeddingsByPrefix({PdfPrefix(DocA), PdfPrefix(DocB)}, SaveOutcomes)
    \/ ClearEmbeddings(SaveOutcomes)
    \/ NewVectorStore(LoadOutcomes)

SpecStore == Init /\ [][NextStore]_vars

(***************************************************************************)
(* SpecSearch: ingestion of two documents whose ids share a prefix, and    *)
(* retrieval scoped to either or to none.                                  *)
(***************************************************************************)
NextSearch ==
    \/ StorePdfEmbeddings({DocA}, ChunkLists, EmbedOutcomes, {"ok"})
    \/ StorePdfEmbeddings({DocAB}, ShortLists, EmbedOutcomes, {"ok"})
    \/ FindSimilarChunks({DocA, DocAB, <<>>}, QueryOutcomes)

SpecSearch == Init /\ [][NextSearch]_vars

(***************************************************************************)
(* SpecPrompt: the context and the prompt assembled from retrieved chunks  *)
(* of every similarity around the threshold.                               *)
(***************************************************************************)
NextPrompt == FormatContext \/ BuildPrompt \/ PromptSent

SpecPrompt == Init /\ [][NextPrompt]_vars

(***************************************************************************)
(* SpecApp: runs of main() over every environment: construction of the     *)
(* services, processing of an uploaded file, questions and their answers.  *)
(***************************************************************************)
NextApp ==
    \/ ImportSettings(Environments)
    \/ ConstructEmbeddingService({"ok"})
    \/ ConstructGeminiClient
    \/ AutoProcessPdf(PageSets, {Returns(Unit(1))}, {"ok"})
    \/ SendQuestion({Raises, Returns(Unit(1))})
    \/ StreamStart
    \/ ProviderChunk({"x"})
    \/ ProviderRaises
    \/ ProviderEnds
    \/ StreamFinish
    \/ FinishAnswer
    \/ ClearChat
    \/ NextRun

SpecApp == Init /\ [][NextApp]_vars

(***************************************************************************)
(* SpecProcess: PDFProcessor.process_pdf on documents of every length      *)
(* around the chunk size and the 50 characters of the filter, in an app    *)
(* that has started.                                                       *)
(***************************************************************************)
ProcessPages ==
    {<<>>, <<PageText(0)>>, <<PageText(7)>>, <<PageText(36)>>, <<PageText(110)>>,
     <<PageText(150)>>, <<PageText(60), PageText(0), PageText(60)>>}

ProcessSizes == {PyNone, PyInt(20), PyInt(50), PyInt(55), PyInt(70), PyInt(100)}
ProcessOverlaps == {PyNone, PyInt(0), PyInt(5), PyInt(60)}

NextProcess ==
    \/ ImportSettings({DefaultEnvironment})
    \/ ConstructEmbeddingService({"ok"})
    \/ ConstructGeminiClient
    \/ ProcessPdf(ProcessPages, ProcessSizes, ProcessOverlaps)

SpecProcess == Init /\ [][NextProcess]_vars

(***************************************************************************)
(* SpecChunk: calls of chunk_pdf_text.                                     *)
(***************************************************************************)
NextChunk == ChunkCall \/ ChunkLoop \/ ChunkReturn

SpecChunk == Init /\ [][NextChunk]_vars

(***************************************************************************)
(* SpecStream: answer streams over a store holding one document.           *)
(***************************************************************************)
\* the app is single-threaded: a document is ingested only while no answer
\* is being streamed
IngestBetweenStreams ==
    /\ st.pc \in {"idle", "closed"}
    /\ StorePdfEmbeddings({DocA}, PairLists, StoreOutcomes, {"ok"})

NextStream ==
    \/ IngestBetweenStreams
    \/ StreamResponse
    \/ StreamStart
    \/ ProviderChunk(FragmentTexts)
    \/ ProviderRaises
    \/ ProviderEnds
    \/ StreamFinish

SpecStream == Init /\ [][NextStream]_vars

(***************************************************************************)
(* Properties of the store (checked under Spec; C10 under SpecFaults).     *)
(***************************************************************************)
KeysWithPrefix(keys, prefix) == {k \in keys : StartsWith(k, prefix)}

\* C1: after store_pdf_embeddings(pdf_id, chunks) with n chunks, whatever the
\* store held before, the stored keys that start with "{pdf_id}_" are exactly
\* "{pdf_id}_chunk_0" .. "{pdf_id}_chunk_{n-1}".
C1_ReingestExactKeys ==
    last.op = "store_pdf_embeddings" =>
        KeysWithPrefix(Keys(embeddings), PdfPrefix(last.pdf_id))
            = {ChunkKey(last.pdf_id, i) : i \in 0..(Len(last.chunks) - 1)}

\* a re-ingestion with fewer chunks than the id held before
C1_Witness ==
    /\ last.op = "store_pdf_embeddings"
    /\ Len(last.chunks) > 0
    /\ last.had > Len(last.chunks)

\* C3: remove_embeddings_by_prefix(prefix) leaves no key that starts with
\* prefix, adds nothing, and keeps every other record, with its vector and
\* metadata, in its place among the others.
C3_RemoveAllAndOnly ==
    [][last'.op = "remove_embeddings_by_prefix" =>
        /\ KeysWithPrefix(Keys(embeddings'), last'.prefix) = {}
        /\ \A j \in 1..Len(embeddings') :
             \E i \in 1..Len(embeddings) : embeddings[i] = embeddings'[j]
        /\ \A i \in 1..Len(embeddings) :
             ~ StartsWith(embeddings[i].key, last'.prefix) =>
                \E j \in 1..Len(embeddings') : embeddings'[j] = embeddings[i]
        /\ Len(embeddings') =
             Cardinality(Keys(embeddings) \
                         KeysWithPrefix(Keys(embeddings), last'.prefix))
      ]_vars

\* a removal that deleted two records and kept another
C3_Witness ==
    /\ last.op = "remove_embeddings_by_prefix"
    /\ last.had - Len(embeddings) >= 2
    /\ embeddings # <<>>

\* C4: ingesting or purging document A leaves every record of another
\* document B (metadata pdf_id B # A) in the store, unchanged.
C4_OtherDocumentsUntouched ==
    [][last'.op \in {"store_pdf_embeddings", "clear_pdf_embeddings"} =>
        \A i \in 1..Len(embeddings) :
            embeddings[i].metadata.pdf_id # last'.pdf_id =>
                \E j \in 1..Len(embeddings') : embeddings'[j] = embeddings[i]
      ]_vars

\* C10: store_pdf_embeddings writes one record for every chunk, in order,
\* whichever embedding calls fail: record idx holds chunk idx's text and the
\* provider's vector, or the all-zero vector when that call failed.
C10_OneRecordPerChunk ==
    last.op = "store_pdf_embeddings" =>
        \A k \in 1..Len(last.chunks) :
            /\ HasKey(embeddings, ChunkKey(last.pdf_id, k - 1))
            /\ LET e == Entry(embeddings, ChunkKey(last.pdf_id, k - 1))
               IN  /\ e.vector = IF last.outs[k].ok THEN last.outs[k].embedding
                                 ELSE Zeros
                   /\ Len(e.vector) = EmbeddingDim
                   /\ e.metadata = [pdf_id |-> last.pdf_id,
                                    chunk_index |-> k - 1,
                                    text |-> last.chunks[k]]

\* an ingestion whose first embedding call failed and whose second did not
C10_Witness ==
    /\ last.op = "store_pdf_embeddings"
    /\ Len(last.chunks) >= 2
    /\ ~ last.outs[1].ok
    /\ last.outs[2].ok
    /\ Len(embeddings) >= 2

(***************************************************************************)
(* Properties of retrieval (checked under SpecSearch).                     *)
(***************************************************************************)
Position(key) == CHOOSE i \in 1..Len(embeddings) : embeddings[i].key = key

ScopedKeys(pdf_id) == {k \in Keys(embeddings) : InScope(k, pdf_id)}

QueryVector == generate_query_embedding(last.out)

\* C2: every result of find_similar_chunks scoped to a document id d is a
\* chunk of d: its key is "{d}_chunk_{i}" and its metadata pdf_id is d.
C2_ResultsBelongToDocument ==
    (last.op = "find_similar_chunks" /\ Len(last.pdf_id) > 0) =>
        \A n \in 1..Len(last.results) :
            /\ last.results[n].pdf_id = last.pdf_id
            /\ \E i \in 0..MaxChunks :
                 last.results[n].key = ChunkKey(last.pdf_id, i)

\* C5: for top_k >= 0 find_similar_chunks returns min(top_k, in-scope
\* records) distinct in-scope records, each with its cosine similarity to
\* the query, in non-increasing similarity, equal similarities in scan
\* order, and no in-scope record left out is strictly more similar than a
\* returned one.
C5_TopKAfterSort ==
    (last.op = "find_similar_chunks" /\ last.top_k >= 0) =>
        LET res == last.results
            got == {res[n].key : n \in 1..Len(res)}
        IN  /\ Len(res) = Min(last.top_k, Cardinality(ScopedKeys(last.pdf_id)))
            /\ got \subseteq ScopedKeys(last.pdf_id)
            /\ Cardinality(got) = Len(res)
            /\ \A n \in 1..Len(res) :
                 res[n].similarity =
                    cosine_similarity(QueryVector,
                                      Entry(embeddings, res[n].key).vector)
            /\ \A m \in 1..Len(res), n \in 1..Len(res) :
                 m < n =>
                    /\ ~ SimLess(res[m].similarity, res[n].similarity)
                    /\ SimEq(res[m].similarity, res[n].similarity) =>
                          Position(res[m].key) < Position(res[n].key)
            /\ \A k \in ScopedKeys(last.pdf_id) \ got :
                 \A n \in 1..Len(res) :
                    ~ SimLess(res[n].similarity,
                              cosine_similarity(QueryVector,
                                                Entry(embeddings, k).vector))

\* a search that returned two of at least three in-scope records, the better
\* one stored after the worse one, and left a record out
C5_Witness ==
    /\ last.op = "find_similar_chunks"
    /\ last.top_k = 2
    /\ Len(last.results) = 2
    /\ Cardinality(ScopedKeys(last.pdf_id)) >= 3
    /\ SimLess(last.results[2].similarity, last.results[1].similarity)
    /\ Position(last.results[2].key) < Position(last.results[1].key)

(***************************************************************************)
(* Properties of chunk_pdf_text (checked under SpecChunk).                 *)
(***************************************************************************)
\* chunks[0] + "".join(c[overlap:] for c in chunks[1:])
Reconstruct(chunks, overlap) ==
    LET R[i \in 0..Len(chunks)] ==
            IF i = 0 THEN <<>>
            ELSE IF i = 1 THEN chunks[1]
            ELSE R[i - 1] \o PySlice(chunks[i], overlap, Len(chunks[i]))
    IN  R[Len(chunks)]

Returned(c) ==
    /\ ck.pc = "returned"
    /\ ck.length = c.length
    /\ ck.chunk_size = c.chunk_size
    /\ ck.overlap = c.overlap

ValidOverlap == ck.chunk_size > ck.overlap /\ ck.overlap > 0

\* C6 as stated: for chunk_size > overlap > 0 the chunks with the overlap
\* removed reconstruct the text, and every chunk but the last has length
\* exactly chunk_size.
C6_AllButLastFull ==
    (ck.pc = "returned" /\ ValidOverlap) =>
        /\ Reconstruct(ck.chunks, ck.overlap) = ck.pdf_text
        /\ \A i \in 1..(Len(ck.chunks) - 1) :
             Len(ck.chunks[i]) = ck.chunk_size

\* C6 as the code has it: for chunk_size > overlap > 0 the chunks with the
\* overlap removed reconstruct the text; every chunk is a non-empty slice of
\* at most chunk_size characters, chunk i starting chunk_size - overlap
\* after chunk i-1; and every chunk that stops before the end of the text
\* has length exactly chunk_size (the chunks that reach the end of the text,
\* of which there may be several, may be shorter).
C6_CoversText ==
    (ck.pc = "returned" /\ ValidOverlap) =>
        /\ Reconstruct(ck.chunks, ck.overlap) = ck.pdf_text
        /\ (ck.pdf_text = <<>>) = (ck.chunks = <<>>)
        /\ \A i \in 1..Len(ck.chunks) :
             /\ Len(ck.chunks[i]) >= 1
             /\ Len(ck.chunks[i]) <= ck.chunk_size
             /\ ck.chunks[i][1] = 1 + (i - 1) * (ck.chunk_size - ck.overlap)
             /\ \A k \in 1..Len(ck.chunks[i]) :
                  ck.chunks[i][k] = ck.chunks[i][1] + k - 1
             /\ ck.chunks[i][Len(ck.chunks[i])] # ck.length =>
                  Len(ck.chunks[i]) = ck.chunk_size

\* a returned call in which two chunks are shorter than chunk_size
C6_Witness ==
    /\ ck.pc = "returned"
    /\ ValidOverlap
    /\ Len(ck.chunks) >= 3
    /\ Len(ck.chunks[Len(ck.chunks) - 1]) < ck.chunk_size
    /\ Len(ck.chunks[1]) = ck.chunk_size

\* C7 as stated: chunk_size 100, overlap 20, 250 characters give exactly the
\* three chunks [0:100], [80:180], [160:250].
C7_ThreeChunks ==
    Returned(ScenarioCall) =>
        ck.chunks = <<SubSeq(ck.pdf_text, 1, 100), SubSeq(ck.pdf_text, 81, 180),
                      SubSeq(ck.pdf_text, 161, 250)>>

\* C7 as the code has it: the same call gives four chunks, [0:100],
\* [80:180], [160:250] and [240:250]; the last two are shorter than
\* chunk_size.
C7_FourChunks ==
    Returned(ScenarioCall) =>
        /\ ck.chunks = <<SubSeq(ck.pdf_text, 1, 100),
                         SubSeq(ck.pdf_text, 81, 180),
                         SubSeq(ck.pdf_text, 161, 250),
                         SubSeq(ck.pdf_text, 241, 250)>>
        /\ Len(ck.chunks[3]) < ck.chunk_size
        /\ Len(ck.chunks[4]) < ck.chunk_size

C7_Witness == Returned(ScenarioCall) /\ Len(ck.pdf_text) = 250

\* C8: a call with chunk_size <= overlap raises before any chunk is emitted,
\* for every text; the loop is entered only with chunk_size > overlap, so
\* every iteration advances start by a positive amount.
C8_InvalidOverlapRaises ==
    /\ ck.pc # "idle" =>
         /\ (ck.chunk_size <= ck.overlap) = (ck.pc = "raised")
         /\ ck.pc = "raised" => (ck.chunks = <<>> /\ ck.start = 0)
    /\ ck.pc = "loop" =>
         chunk_advance(ck.start, ck.chunk_size, ck.overlap) > ck.start

\* the empty text with chunk_size = overlap
C8_Witness ==
    /\ ck.pc = "raised"
    /\ ck.pdf_text = <<>>
    /\ ck.chunk_size = ck.overlap
    /\ ck.chunks = <<>>

(***************************************************************************)
(* Properties of the answer stream (checked under SpecStream).             *)
(***************************************************************************)
NonEmpty(fragments) ==
    LET N[i \in 0..Len(fragments)] ==
            IF i = 0 THEN <<>>
            ELSE IF fragments[i] # "" THEN Append(N[i - 1], fragments[i])
                 ELSE N[i - 1]
    IN  N[Len(fragments)]

StreamActive == st.pc # "idle"

\* C9 as stated: when the provider fails after k fragments the stream
\* yields those k fragments and then one error fragment, and no exception
\* reaches the consumer.
C9_AllFragmentsThenError ==
    StreamActive =>
        /\ ~ st.escaped
        /\ (st.pc = "closed" /\ st.failed) =>
              st.yielded = st.produced \o <<ErrorFragment>>

\* C9 as the code has it: no exception reaches the consumer; when the
\* provider fails after k chunks the stream yields the non-empty texts
\* among them, in order, then exactly one error fragment, then ends; when it
\* fails at once the stream yields exactly the error fragment.
C9_NonEmptyFragmentsThenError ==
    StreamActive =>
        /\ ~ st.escaped
        /\ st.failed => st.pc \in {"after_error", "closed"}
        /\ (st.pc = "closed" /\ st.failed) =>
              /\ st.yielded = NonEmpty(st.produced) \o <<ErrorFragment>>
              /\ st.produced = <<>> => st.yielded = <<ErrorFragment>>
        /\ (st.pc = "closed" /\ ~ st.failed) =>
              st.yielded = NonEmpty(st.produced)

\* a stream that ended after the provider failed, having produced a text
\* and an empty chunk
C9_Witness ==
    /\ StreamActive
    /\ st.pc = "closed"
    /\ st.failed
    /\ Len(st.produced) >= 2
    /\ \E i \in 1..Len(st.produced) : st.produced[i] = ""
    /\ Len(st.yielded) >= 2

(***************************************************************************)
(* Properties of the VectorStore and its file (checked under SpecStore).   *)
(***************************************************************************)
StoreMutations ==
    {"add_embedding", "remove_embeddings_by_prefix", "clear_embeddings"}

\* C11: when the save of add_embedding, remove_embeddings_by_prefix or
\* clear_embeddings succeeds, the file holds exactly the in-memory mapping
\* as the operation completes, and a new VectorStore on the same path loads
\* a mapping equal to it.
C11_FileHoldsMapping ==
    (last.op \in StoreMutations /\ last.io = "ok") =>
        /\ disk.kind = "file"
        /\ disk.content = embeddings
        /\ vector_store_init(disk, "ok").embeddings = embeddings

\* a removal that took some records and left others, every save so far
\* having succeeded
C11_Witness ==
    /\ last.op = "remove_embeddings_by_prefix"
    /\ last.io = "ok"
    /\ faults = 0
    /\ last.had > Len(embeddings)
    /\ Len(embeddings) >= 1

\* C12: a failed save raises nothing and leaves the mutation applied in
\* memory; a failed load at construction raises nothing and leaves an empty
\* mapping.
C12_FailuresStayInside ==
    /\ (last.op = "add_embedding" /\ last.io # "ok") =>
          /\ ~ last.raised
          /\ HasKey(embeddings, last.key)
          /\ get_embedding_data(VS, last.key).vector = last.vector
          /\ get_embedding_data(VS, last.key).metadata = last.metadata
    /\ (last.op = "remove_embeddings_by_prefix" /\ last.io # "ok") =>
          /\ ~ last.raised
          /\ \A k \in Keys(embeddings) : ~ StartsWith(k, last.prefix)
    /\ (last.op = "clear_embeddings" /\ last.io # "ok") =>
          /\ ~ last.raised
          /\ embeddings = <<>>
    /\ (last.op = "VectorStore" /\ last.load = "failed") =>
          /\ ~ last.raised
          /\ embeddings = <<>>

\* an insertion whose save broke off while writing: the file is unreadable,
\* the mapping holds the new record next to an older one
C12_Witness ==
    /\ last.op = "add_embedding"
    /\ last.io = "dump_fails"
    /\ disk = CorruptFile
    /\ Len(embeddings) >= 2

(***************************************************************************)
(* Properties of the prompt (checked under SpecPrompt).                    *)
(***************************************************************************)
\* the positions at which sub occurs in text
Occurrences(sub, text) ==
    {p \in 1..(Len(text) - Len(sub) + 1) : SubSeq(text, p, p + Len(sub) - 1) = sub}

\* the heading and the text of the i-th retrieved chunk as the context shows
\* them
ChunkLabel(i) == <<"[Chunk ">> \o Decimal(i) \o <<" sim=">>
ChunkBody(c) == <<"]", "\n">> \o c.text

Retained(chunks) ==
    {i \in 1..Len(chunks) :
        chunks[i].similarity.num > 0
        /\ 400 * chunks[i].similarity.num * chunks[i].similarity.num
               > chunks[i].similarity.den}

\* C13: the context shows a retrieved chunk (its heading followed by its
\* text) if and only if its similarity is strictly greater than 0.05, the
\* retained chunks in their given order; when no chunk is retained the
\* context is the empty string and the prompt has no context section.
C13_ContextAboveThreshold ==
    last.op = "build_prompt" =>
        LET chunks == last.chunks
            context == last.context
            At(i) == Occurrences(ChunkLabel(i), context)
        IN  /\ \A i \in 1..Len(chunks) :
                 IF i \in Retained(chunks)
                 THEN /\ Cardinality(At(i)) = 1
                      /\ \E p \in At(i), b \in Occurrences(ChunkBody(chunks[i]), context) :
                            b = p + Len(ChunkLabel(i)) + 4
                 ELSE At(i) = {}
            /\ \A i, j \in Retained(chunks) :
                 i < j => \A p \in At(i), r \in At(j) : p < r
            /\ Retained(chunks) = {} =>
                 /\ context = <<>>
                 /\ Occurrences(ContextHeader, last.prompt) = {}
            /\ Retained(chunks) # {} =>
                 Occurrences(ContextHeader \o context, last.prompt) # {}

\* three retrieved chunks at 0.05, 0.06 and 0.02: only the second is shown
C13_Witness ==
    /\ last.op = "build_prompt"
    /\ Len(last.chunks) = 3
    /\ last.chunks[1].similarity = Percent(5)
    /\ last.chunks[2].similarity = Percent(6)
    /\ last.chunks[3].similarity = Percent(2)
    /\ last.context # <<>>

(***************************************************************************)
(* Properties of the app and its configuration (checked under SpecApp).    *)
(***************************************************************************)
\* C14: a configuration with chunk_size <= overlap is reported as a
\* configuration error when the services are constructed, so no document is
\* ever processed under it and chunk_pdf_text is never the first to report
\* it.
C14_InvalidOverlapStopsStartup ==
    last.op = "process_pdf" =>
        /\ ~ invalid_chunking(config.values.CHUNK_SIZE.n,
                              config.values.CHUNK_OVERLAP.n)
        /\ ~ last.raised

\* C15: while an answer is streamed, the prompt built for it holds the
\* current question exactly once, in the final question section.
C15_QuestionOnce ==
    (session.streaming /\ st.pc \in {"iterating", "after_error", "closed"}) =>
        /\ Occurrences(QuestionHeader \o st.query \o AnswerCue, st.prompt) # {}
        /\ Cardinality(Occurrences(st.query, st.prompt)) = 1

\* C16: once a call of Config.validate has succeeded, every later call
\* succeeds too: no construction of a service fails after one has passed.
C16_ValidateIdempotent ==
    config.pc = "failed" => ~ config.validated

(***************************************************************************)
(* Properties of process_pdf (checked under SpecProcess).                  *)
(***************************************************************************)
\* the k-th window of chunk_pdf_text over a text of the given length:
\* its first and last position, counted from 1
WindowFirst(k, chunk_size, overlap) == (k - 1) * (chunk_size - overlap) + 1
WindowLast(k, chunk_size, overlap, length) ==
    Min((k - 1) * (chunk_size - overlap) + chunk_size, length)
Windows(chunk_size, overlap, length) ==
    {k \in 1..length : WindowFirst(k, chunk_size, overlap) <= length}
Window(text, k, chunk_size, overlap) ==
    SubSeq(text, WindowFirst(k, chunk_size, overlap),
           WindowLast(k, chunk_size, overlap, Len(text)))

\* the positions of the text that lie inside one of the chunks
CoveredBy(chunks, text) ==
    {p \in 1..Len(text) :
        \E i \in 1..Len(chunks) : \E s \in Occurrences(chunks[i], text) :
            s <= p /\ p < s + Len(chunks[i])}

Processed ==
    /\ last.op = "process_pdf"
    /\ ~ last.raised
    /\ last.chunk_size > last.overlap
    /\ last.cleaned # <<>>

\* C17 as stated: every character position of a non-empty cleaned text lies
\* inside at least one chunk process_pdf returns.
C17_ReturnedChunksCoverText ==
    Processed => CoveredBy(last.chunks, last.cleaned) = 1..Len(last.cleaned)

\* C17: every chunk process_pdf returns is a window of chunk_pdf_text whose
\* trimmed length exceeds 50, and a character position lies inside a
\* returned chunk if and only if it lies inside such a window.
C17_CoveredIffInLongWindow ==
    Processed =>
        LET text == last.cleaned
            cs == last.chunk_size
            ov == last.overlap
            long == {k \in Windows(cs, ov, Len(text)) :
                        Len(Strip(Window(text, k, cs, ov))) > 50}
        IN  /\ Len(last.chunks) = Cardinality(long)
            /\ \A i \in 1..Len(last.chunks) :
                 \E k \in long : last.chunks[i] = Window(text, k, cs, ov)
            /\ \A p \in 1..Len(text) :
                 p \in CoveredBy(last.chunks, text)
                   <=> \E k \in long : /\ WindowFirst(k, cs, ov) <= p
                                       /\ p <= WindowLast(k, cs, ov, Len(text))

\* a document of which chunks are returned, but whose tail lies in no
\* returned chunk
C17_Witness ==
    /\ Processed
    /\ last.chunks # <<>>
    /\ Len(last.cleaned) \notin CoveredBy(last.chunks, last.cleaned)

(***************************************************************************)
(* Properties of zero vectors in retrieval (checked under SpecStream).     *)
(***************************************************************************)
\* the retrieved chunk's pair has a zero vector: the query embedding failed
\* or the chunk was stored with the zero-vector fallback
ZeroPair(r) ==
    \/ ~ last.out.ok
    \/ get_embedding_data(VS, r.key).vector = Zeros

\* C18: when the query embedding failed or a stored chunk holds the
\* zero-vector fallback, the similarity of that pair is exactly 0.0,
\* find_similar_chunks still returns a result for every chunk of the
\* document (up to three), and no such chunk is shown in the context.
C18_ZeroVectorScoresZero ==
    (last.op = "stream_response" /\ st.pc # "idle") =>
        /\ Len(st.chunks) =
             Min(3, Cardinality({k \in Keys(embeddings) :
                                    StartsWith(k, PdfPrefix(last.pdf_id))}))
        /\ \A i \in 1..Len(st.chunks) :
             ZeroPair(st.chunks[i]) =>
                /\ st.chunks[i].similarity = ZeroSim
                /\ Occurrences(ChunkLabel(i), st.context) = {}
                /\ Occurrences(ChunkBody(st.chunks[i]), st.context) = {}

\* two chunks retrieved with a working query embedding, one stored with the
\* zero-vector fallback: the context shows the other one only
C18_Witness ==
    /\ last.op = "stream_response"
    /\ st.pc # "idle"
    /\ last.out.ok
    /\ Len(st.chunks) = 2
    /\ \E i \in 1..2 : ZeroPair(st.chunks[i])
    /\ st.context # <<>>

=============================================================================
